---- MODULE Spec2Model ----
(***************************************************************************)
(* A model of the two WASM facades of the LOGOS front end:                 *)
(*   CryptoModule   (frontend/src/wasm/crypto.rs)                          *)
(*   ImageProcessor (frontend/src/wasm/image_processor.rs)                 *)
(*                                                                         *)
(* Every exported method is one action.  A state is the last call that     *)
(* was made on the facades: its name, its arguments, the steps it ran and  *)
(* what it returned.  A Rust &str is the sequence of its UTF-8 bytes, a    *)
(* base64 text is the sequence of its characters (0..63 the alphabet, in   *)
(* order; PadChar '='; BadChar any character outside the alphabet).        *)
(*                                                                         *)
(* The cryptographic and codec libraries the methods forward into are      *)
(* outside the repository.  They are modelled by small stand-ins that keep *)
(* the interface the wrappers rely on (lengths, failure cases, inverse     *)
(* pairs); the stand-ins are named Aead*, Ed* and Codec* below.            *)
(***************************************************************************)
EXTENDS Integers, Sequences, FiniteSets, TLC

VARIABLES
    op,       \* name of the last method called ("new" after construction)
    args,     \* its arguments, a record (random draws included)
    steps,    \* the steps the call ran, in order
    result,   \* what the call returned
    origin    \* caller's note: the call whose output is passed on as an argument

vars == <<op, args, steps, result, origin>>

----------------------------------------------------------------------------
(* Bounds of the model *)

MaxKeySeed == 1      \* AES keys / Ed25519 secrets the random source may draw: seeds 0..MaxKeySeed
MaxNonceSeed == 1    \* nonces the random source may draw: seeds 0..MaxNonceSeed
MaxRandomLen == 2    \* random_bytes lengths 0..MaxRandomLen

(* Program constants *)

KeyLen == 32         \* Key::<Aes256Gcm>, SecretKey, PublicKey
NonceLen == 12       \* rand::random::<[u8; 12]>(), split_at(12)
TagLen == 16         \* AES-GCM tag appended to the ciphertext
SigLen == 64         \* ed25519 Signature
JpegQuality == 85    \* convert_format "jpeg" | "jpg"
KernelLen == 9       \* apply_convolution kernel.len() != 9

Byte == 0..255
PadChar == 64
BadChar == 65

----------------------------------------------------------------------------
(* base64::engine::general_purpose::STANDARD *)

B64Group(b) ==
    IF Len(b) >= 3
    THEN << b[1] \div 4, (b[1] % 4) * 16 + b[2] \div 16,
            (b[2] % 16) * 4 + b[3] \div 64, b[3] % 64 >>
    ELSE IF Len(b) = 2
    THEN << b[1] \div 4, (b[1] % 4) * 16 + b[2] \div 16, (b[2] % 16) * 4, PadChar >>
    ELSE << b[1] \div 4, (b[1] % 4) * 16, PadChar, PadChar >>

RECURSIVE B64Encode(_)
B64Encode(b) ==
    IF Len(b) = 0 THEN << >>
    ELSE IF Len(b) <= 3 THEN B64Group(b)
    ELSE B64Group(SubSeq(b, 1, 3)) \o B64Encode(SubSeq(b, 4, Len(b)))

IsSym(c) == c \in 0..63

\* One 4-character group of a padded base64 text; last tells whether it is the
\* final group, the only one that may carry padding.  Trailing bits that are
\* not zero are rejected (decode_allow_trailing_bits is off in STANDARD).
B64Quad(q, last) ==
    IF IsSym(q[1]) /\ IsSym(q[2]) /\ IsSym(q[3]) /\ IsSym(q[4])
    THEN [ok |-> TRUE,
          bytes |-> << q[1] * 4 + q[2] \div 16,
                       (q[2] % 16) * 16 + q[3] \div 4,
                       (q[3] % 4) * 64 + q[4] >>]
    ELSE IF last /\ IsSym(q[1]) /\ IsSym(q[2]) /\ IsSym(q[3]) /\ q[4] = PadChar
    THEN [ok |-> q[3] % 4 = 0,
          bytes |-> << q[1] * 4 + q[2] \div 16, (q[2] % 16) * 16 + q[3] \div 4 >>]
    ELSE IF last /\ IsSym(q[1]) /\ IsSym(q[2]) /\ q[3] = PadChar /\ q[4] = PadChar
    THEN [ok |-> q[2] % 16 = 0, bytes |-> << q[1] * 4 + q[2] \div 16 >>]
    ELSE [ok |-> FALSE, bytes |-> << >>]

RECURSIVE B64Decode(_)
B64Decode(t) ==
    IF Len(t) = 0 THEN [ok |-> TRUE, bytes |-> << >>]
    ELSE IF Len(t) < 4 THEN [ok |-> FALSE, bytes |-> << >>]
    ELSE LET g == B64Quad(SubSeq(t, 1, 4), Len(t) = 4)
             r == B64Decode(SubSeq(t, 5, Len(t)))
         IN IF g.ok /\ r.ok
            THEN [ok |-> TRUE, bytes |-> g.bytes \o r.bytes]
            ELSE [ok |-> FALSE, bytes |-> << >>]

----------------------------------------------------------------------------
(* String::from_utf8 *)

IsCont(b) == b \in 128..191

RECURSIVE IsUtf8(_)
IsUtf8(b) ==
    IF Len(b) = 0 THEN TRUE
    ELSE IF b[1] <= 127 THEN IsUtf8(Tail(b))
    ELSE IF b[1] \in 194..223
    THEN Len(b) >= 2 /\ IsCont(b[2]) /\ IsUtf8(SubSeq(b, 3, Len(b)))
    ELSE IF b[1] \in 224..239
    THEN /\ Len(b) >= 3 /\ IsCont(b[2]) /\ IsCont(b[3])
         /\ (b[1] = 224 => b[2] >= 160)
         /\ (b[1] = 237 => b[2] <= 159)
         /\ IsUtf8(SubSeq(b, 4, Len(b)))
    ELSE IF b[1] \in 240..244
    THEN /\ Len(b) >= 4 /\ IsCont(b[2]) /\ IsCont(b[3]) /\ IsCont(b[4])
         /\ (b[1] = 240 => b[2] >= 144)
         /\ (b[1] = 244 => b[2] <= 143)
         /\ IsUtf8(SubSeq(b, 5, Len(b)))
    ELSE FALSE

----------------------------------------------------------------------------
(* Results of a call: Result<_, JsValue>, or a panic (a trap of the WASM      *)
(* instance) when the method aborts instead of returning.                     *)

Ok(d) == [kind |-> "ok", msg |-> "", data |-> d, data2 |-> << >>, flag |-> FALSE]
OkPair(d, e) == [kind |-> "ok", msg |-> "", data |-> d, data2 |-> e, flag |-> FALSE]
OkBool(b) == [kind |-> "ok", msg |-> "", data |-> << >>, data2 |-> << >>, flag |-> b]
Err(m) == [kind |-> "err", msg |-> m, data |-> << >>, data2 |-> << >>, flag |-> FALSE]
Panic(m) == [kind |-> "panic", msg |-> m, data |-> << >>, data2 |-> << >>, flag |-> FALSE]
NoResult == [kind |-> "none", msg |-> "", data |-> << >>, data2 |-> << >>, flag |-> FALSE]

Out(r, s) == [res |-> r, steps |-> s]

----------------------------------------------------------------------------
(* Stand-in for aes_gcm::Aes256Gcm.  The keystream is added byte by byte, the  *)
(* tag is a keyed sum over key, nonce and ciphertext body in which every byte  *)
(* of the nonce and of the body has an odd weight, so that changing one byte   *)
(* changes the tag (what GHASH and the encrypted counter block give in GCM).   *)

AeadKeystream(key, nonce, i) ==
    (key[((i - 1) % KeyLen) + 1] + nonce[((i - 1) % NonceLen) + 1] + i) % 256

RECURSIVE AeadWeighted(_, _, _)
AeadWeighted(body, j, i) ==
    IF i > Len(body) THEN 0
    ELSE body[i] * (2 * ((i + j) % 8) + 1) + AeadWeighted(body, j, i + 1)

AeadTag(key, nonce, body) ==
    [j \in 1..TagLen |->
        ( key[j] + 3 * key[j + TagLen] + 5 * nonce[((j - 1) % NonceLen) + 1]
          + Len(body) + AeadWeighted(body, j, 1) ) % 256]

\* cipher.encrypt(nonce, plaintext): ciphertext body followed by the tag
AeadEncrypt(key, nonce, pt) ==
    LET body == [i \in 1..Len(pt) |-> (pt[i] + AeadKeystream(key, nonce, i)) % 256]
    IN body \o AeadTag(key, nonce, body)

\* cipher.decrypt(nonce, ciphertext): Err(aead::Error) when the input is shorter
\* than a tag or the tag does not verify
AeadDecrypt(key, nonce, ct) ==
    IF Len(ct) < TagLen THEN [ok |-> FALSE, bytes |-> << >>]
    ELSE LET n == Len(ct) - TagLen
             body == SubSeq(ct, 1, n)
             tag == SubSeq(ct, n + 1, Len(ct))
         IN IF tag # AeadTag(key, nonce, body)
            THEN [ok |-> FALSE, bytes |-> << >>]
            ELSE [ok |-> TRUE,
                  bytes |-> [i \in 1..n |->
                               (body[i] + 256 - AeadKeystream(key, nonce, i)) % 256]]

\* The random source (OsRng, rand::random, getrandom): the draw is an input of
\* the call, named by a seed.
RandomBytes(seed, n) == [i \in 1..n |-> (seed * 89 + i * 13 + 7) % 256]

----------------------------------------------------------------------------
(* CryptoModule *)

generate_aes_key(seed) ==
    Out(Ok(B64Encode(RandomBytes(seed, KeyLen))), << "generate_key", "encode" >>)

\* encrypt_aes returning the ciphertext alone, the nonce left out of the envelope
encrypt_aes_without_nonce(plaintext, key_base64, nonce_bytes) ==
    LET k == B64Decode(key_base64) IN
    IF ~k.ok THEN Out(Err("Invalid key"), << "decode_key" >>)
    ELSE IF Len(k.bytes) # KeyLen
    THEN Out(Panic("Key::from_slice"), << "decode_key", "key_from_slice" >>)
    ELSE LET ciphertext == AeadEncrypt(k.bytes, nonce_bytes, plaintext)
         IN Out(Ok(B64Encode(ciphertext)),
                << "decode_key", "key_from_slice", "nonce", "aead_encrypt", "encode" >>)

encrypt_aes(plaintext, key_base64, nonce_bytes) ==
    LET k == B64Decode(key_base64) IN
    IF ~k.ok THEN Out(Err("Invalid key"), << "decode_key" >>)
    ELSE IF Len(k.bytes) # KeyLen
    THEN \* Key::from_slice asserts the slice length
         Out(Panic("Key::from_slice"), << "decode_key", "key_from_slice" >>)
    ELSE LET ciphertext == AeadEncrypt(k.bytes, nonce_bytes, plaintext)
         IN Out(Ok(B64Encode(nonce_bytes \o ciphertext)),
                << "decode_key", "key_from_slice", "nonce", "aead_encrypt", "encode" >>)

\* decrypt_aes with the length check off by one: an 11-byte envelope reaches split_at(12)
decrypt_aes_short_check(ciphertext_base64, key_base64) ==
    LET k == B64Decode(key_base64) IN
    IF ~k.ok THEN Out(Err("Invalid key"), << "decode_key" >>)
    ELSE
    LET c == B64Decode(ciphertext_base64) IN
    IF ~c.ok THEN Out(Err("Invalid ciphertext"), << "decode_key", "decode_ciphertext" >>)
    ELSE IF Len(c.bytes) < NonceLen - 1
    THEN Out(Err("Invalid ciphertext length"), << "decode_key", "decode_ciphertext" >>)
    ELSE IF Len(c.bytes) < NonceLen
    THEN Out(Panic("split_at"), << "decode_key", "decode_ciphertext", "split" >>)
    ELSE IF Len(k.bytes) # KeyLen
    THEN Out(Panic("Key::from_slice"),
             << "decode_key", "decode_ciphertext", "split", "key_from_slice" >>)
    ELSE
    LET nonce == SubSeq(c.bytes, 1, NonceLen)
        ct == SubSeq(c.bytes, NonceLen + 1, Len(c.bytes))
        p == AeadDecrypt(k.bytes, nonce, ct)
        ran == << "decode_key", "decode_ciphertext", "split", "key_from_slice",
                  "aead_decrypt" >>
    IN IF ~p.ok THEN Out(Err("Decryption failed"), ran)
       ELSE IF ~IsUtf8(p.bytes) THEN Out(Err("Invalid UTF-8"), Append(ran, "utf8"))
       ELSE Out(Ok(p.bytes), Append(ran, "utf8"))

\* decrypt_aes with the AEAD failure swallowed (unwrap_or_default in place of map_err)
decrypt_aes_swallowing(ciphertext_base64, key_base64) ==
    LET k == B64Decode(key_base64) IN
    IF ~k.ok THEN Out(Err("Invalid key"), << "decode_key" >>)
    ELSE
    LET c == B64Decode(ciphertext_base64) IN
    IF ~c.ok THEN Out(Err("Invalid ciphertext"), << "decode_key", "decode_ciphertext" >>)
    ELSE IF Len(c.bytes) < NonceLen
    THEN Out(Err("Invalid ciphertext length"), << "decode_key", "decode_ciphertext" >>)
    ELSE IF Len(k.bytes) # KeyLen
    THEN Out(Panic("Key::from_slice"),
             << "decode_key", "decode_ciphertext", "split", "key_from_slice" >>)
    ELSE
    LET nonce == SubSeq(c.bytes, 1, NonceLen)
        ct == SubSeq(c.bytes, NonceLen + 1, Len(c.bytes))
        p == AeadDecrypt(k.bytes, nonce, ct)
        ran == << "decode_key", "decode_ciphertext", "split", "key_from_slice",
                  "aead_decrypt", "utf8" >>
    IN IF ~IsUtf8(p.bytes) THEN Out(Err("Invalid UTF-8"), ran)
       ELSE Out(Ok(p.bytes), ran)

decrypt_aes(ciphertext_base64, key_base64) ==
    LET k == B64Decode(key_base64) IN
    IF ~k.ok THEN Out(Err("Invalid key"), << "decode_key" >>)
    ELSE
    LET c == B64Decode(ciphertext_base64) IN
    IF ~c.ok THEN Out(Err("Invalid ciphertext"), << "decode_key", "decode_ciphertext" >>)
    ELSE IF Len(c.bytes) < NonceLen
    THEN Out(Err("Invalid ciphertext length"), << "decode_key", "decode_ciphertext" >>)
    ELSE IF Len(k.bytes) # KeyLen
    THEN Out(Panic("Key::from_slice"),
             << "decode_key", "decode_ciphertext", "split", "key_from_slice" >>)
    ELSE
    LET nonce == SubSeq(c.bytes, 1, NonceLen)
        ct == SubSeq(c.bytes, NonceLen + 1, Len(c.bytes))
        p == AeadDecrypt(k.bytes, nonce, ct)
        ran == << "decode_key", "decode_ciphertext", "split", "key_from_slice",
                  "aead_decrypt" >>
    IN IF ~p.ok THEN Out(Err("Decryption failed"), ran)
       ELSE IF ~IsUtf8(p.bytes) THEN Out(Err("Invalid UTF-8"), Append(ran, "utf8"))
       ELSE Out(Ok(p.bytes), Append(ran, "utf8"))

----------------------------------------------------------------------------
(* Stand-ins for sha2, pbkdf2 and ed25519_dalek.  Digest is a weighted sum of  *)
(* the input bytes; a public key is derived from the secret bytes and is a     *)
(* "curve point" when its first byte is odd; a signature is 64 bytes made from *)
(* the public key and the message digest, its last byte below 32 (the top     *)
(* three bits of the scalar are clear), and verifies when it is the signature *)
(* the public key's owner makes of the message.                               *)

RECURSIVE DigestSum(_, _, _)
DigestSum(data, j, i) ==
    IF i > Len(data) THEN 0
    ELSE (data[i] + 1) * (2 * ((i * j) % 16) + 1) * i + DigestSum(data, j, i + 1)

Digest(data, n) == [j \in 1..n |-> (Len(data) * j + DigestSum(data, j, 1)) % 256]

EdPublic(secret) ==
    [i \in 1..KeyLen |-> IF i = 1 THEN (2 * secret[1] + 1) % 256
                          ELSE (3 * secret[i] + i) % 256]

EdIsPoint(b) == b[1] % 2 = 1

EdSignature(public, message) ==
    LET d == Digest(message, SigLen) IN
    [i \in 1..SigLen |->
        IF i <= KeyLen THEN (public[i] + d[i]) % 256
        ELSE IF i < SigLen THEN (3 * public[i - KeyLen] + d[i]) % 256
        ELSE (3 * public[i - KeyLen] + d[i]) % 32]

\* SecretKey::from_bytes
EdSecretParses(b) == Len(b) = KeyLen
\* Signature::from_bytes
EdSignatureParses(b) == Len(b) = SigLen /\ b[SigLen] < 32
\* PublicKey::from_bytes
EdPublicParses(b) == Len(b) = KeyLen /\ EdIsPoint(b)
\* public_key.verify(message, &signature).is_ok()
EdVerify(public, message, signature) == signature = EdSignature(public, message)

hash_sha256(data) == Out(Ok(B64Encode(Digest(data, 32))), << "hash", "encode" >>)

hash_sha512(data) == Out(Ok(B64Encode(Digest(data, 64))), << "hash", "encode" >>)

generate_keypair(seed) ==
    LET secret == RandomBytes(50 + seed, KeyLen) IN
    Out(OkPair(B64Encode(EdPublic(secret)), B64Encode(secret)),
        << "generate_keypair", "encode", "serialize" >>)

\* sign_ed25519 with the key pair built from the secret bytes on both sides
sign_ed25519_wrong_public(message, secret_key_base64) ==
    LET s == B64Decode(secret_key_base64) IN
    IF ~s.ok THEN Out(Err("Invalid secret key"), << "decode_secret" >>)
    ELSE IF ~EdSecretParses(s.bytes)
    THEN Out(Err("Invalid secret key format"), << "decode_secret", "parse_secret" >>)
    ELSE Out(Ok(B64Encode(EdSignature(s.bytes, message))),
             << "decode_secret", "parse_secret", "sign", "encode" >>)

sign_ed25519(message, secret_key_base64) ==
    LET s == B64Decode(secret_key_base64) IN
    IF ~s.ok THEN Out(Err("Invalid secret key"), << "decode_secret" >>)
    ELSE IF ~EdSecretParses(s.bytes)
    THEN Out(Err("Invalid secret key format"), << "decode_secret", "parse_secret" >>)
    ELSE Out(Ok(B64Encode(EdSignature(EdPublic(s.bytes), message))),
             << "decode_secret", "parse_secret", "sign", "encode" >>)

\* verify_ed25519 with the verification failure propagated (`?` in place of .is_ok())
verify_ed25519_strict(message, signature_base64, public_key_base64) ==
    LET sg == B64Decode(signature_base64) IN
    IF ~sg.ok THEN Out(Err("Invalid signature"), << "decode_signature" >>)
    ELSE
    LET pk == B64Decode(public_key_base64) IN
    IF ~pk.ok THEN Out(Err("Invalid public key"), << "decode_signature", "decode_public" >>)
    ELSE IF ~EdSignatureParses(sg.bytes)
    THEN Out(Err("Invalid signature format"),
             << "decode_signature", "decode_public", "parse_signature" >>)
    ELSE IF ~EdPublicParses(pk.bytes)
    THEN Out(Err("Invalid public key format"),
             << "decode_signature", "decode_public", "parse_signature", "parse_public" >>)
    ELSE IF ~EdVerify(pk.bytes, message, sg.bytes)
    THEN Out(Err("Verification failed"),
             << "decode_signature", "decode_public", "parse_signature", "parse_public",
                "verify" >>)
    ELSE Out(OkBool(TRUE),
             << "decode_signature", "decode_public", "parse_signature", "parse_public",
                "verify" >>)

verify_ed25519(message, signature_base64, public_key_base64) ==
    LET sg == B64Decode(signature_base64) IN
    IF ~sg.ok THEN Out(Err("Invalid signature"), << "decode_signature" >>)
    ELSE
    LET pk == B64Decode(public_key_base64) IN
    IF ~pk.ok THEN Out(Err("Invalid public key"), << "decode_signature", "decode_public" >>)
    ELSE IF ~EdSignatureParses(sg.bytes)
    THEN Out(Err("Invalid signature format"),
             << "decode_signature", "decode_public", "parse_signature" >>)
    ELSE IF ~EdPublicParses(pk.bytes)
    THEN Out(Err("Invalid public key format"),
             << "decode_signature", "decode_public", "parse_signature", "parse_public" >>)
    ELSE Out(OkBool(EdVerify(pk.bytes, message, sg.bytes)),
             << "decode_signature", "decode_public", "parse_signature", "parse_public",
                "verify" >>)

\* getrandom(..).unwrap(): a failing entropy source aborts the call
random_bytes(length, seed, entropy_ok) ==
    IF ~entropy_ok THEN Out(Panic("getrandom"), << "getrandom" >>)
    ELSE Out(Ok(B64Encode(RandomBytes(seed, length))), << "getrandom", "encode" >>)

derive_key_pbkdf2(password, salt, iterations) ==
    Out(Ok(B64Encode(Digest(password \o << iterations % 256 >> \o salt, KeyLen))),
        << "pbkdf2", "encode" >>)

----------------------------------------------------------------------------
(* Stand-in for the image crate's codecs.  An encoded image is the bytes       *)
(*   << codec, quality, width, height >> \o pixel bytes                        *)
(* with four bytes (R, G, B, A) a pixel, row-major; JPEG keeps no alpha and    *)
(* stores three.  A decoded image is [w, h, px], px the row-major sequence of  *)
(* << r, g, b, a >> pixels.                                                    *)

CodecPng == 1
CodecJpeg == 2
CodecWebP == 3
CodecBmp == 4

Channels(codec) == IF codec = CodecJpeg THEN 3 ELSE 4

\* image::load_from_memory
load_from_memory(b) ==
    IF /\ Len(b) >= 4
       /\ b[1] \in {CodecPng, CodecJpeg, CodecWebP, CodecBmp}
       /\ b[3] >= 1 /\ b[4] >= 1
       /\ Len(b) = 4 + Channels(b[1]) * b[3] * b[4]
    THEN LET c == Channels(b[1]) IN
         [ok |-> TRUE, w |-> b[3], h |-> b[4],
          px |-> [n \in 1..(b[3] * b[4]) |->
                    << b[4 + c * (n - 1) + 1], b[4 + c * (n - 1) + 2],
                       b[4 + c * (n - 1) + 3],
                       IF c = 4 THEN b[4 + c * (n - 1) + 4] ELSE 255 >>]]
    ELSE [ok |-> FALSE, w |-> 0, h |-> 0, px |-> << >>]

RECURSIVE PixelBytes(_, _)
PixelBytes(px, c) ==
    IF Len(px) = 0 THEN << >>
    ELSE SubSeq(px[1], 1, c) \o PixelBytes(Tail(px), c)

\* DynamicImage::write_to(&mut output, format); an image without pixels cannot
\* be encoded
write_to(img, codec, quality) ==
    IF img.w = 0 \/ img.h = 0 THEN [ok |-> FALSE, bytes |-> << >>]
    ELSE [ok |-> TRUE,
          bytes |-> << codec, quality, img.w, img.h >> \o PixelBytes(img.px, Channels(codec))]

\* GenericImageView::get_pixel(x, y), 0-based
get_pixel(img, x, y) == img.px[y * img.w + x + 1]

Coords(w, h) == (0..(w - 1)) \X (0..(h - 1))

\* ImageBuffer of w x h pixels, pixel (x, y) being at[<< x, y >>]
Image(w, h, at) ==
    [w |-> w, h |-> h, px |-> [n \in 1..(w * h) |-> at[<< (n - 1) % w, (n - 1) \div w >>]]]

rotate90(img) ==
    Image(img.h, img.w,
          [c \in Coords(img.h, img.w) |-> get_pixel(img, c[2], img.h - 1 - c[1])])
rotate180(img) ==
    Image(img.w, img.h,
          [c \in Coords(img.w, img.h) |-> get_pixel(img, img.w - 1 - c[1], img.h - 1 - c[2])])
rotate270(img) ==
    Image(img.h, img.w,
          [c \in Coords(img.h, img.w) |-> get_pixel(img, img.w - 1 - c[2], c[1])])
fliph(img) ==
    Image(img.w, img.h,
          [c \in Coords(img.w, img.h) |-> get_pixel(img, img.w - 1 - c[1], c[2])])
flipv(img) ==
    Image(img.w, img.h,
          [c \in Coords(img.w, img.h) |-> get_pixel(img, c[1], img.h - 1 - c[2])])

Min(a, b) == IF a < b THEN a ELSE b

\* DynamicImage::crop clamps the rectangle to the image
crop_imm(img, x, y, width, height) ==
    LET x0 == Min(x, img.w)
        y0 == Min(y, img.h)
        w0 == Min(width, img.w - x0)
        h0 == Min(height, img.h - y0)
    IN Image(w0, h0, [c \in Coords(w0, h0) |-> get_pixel(img, x0 + c[1], y0 + c[2])])

\* str::to_lowercase on ASCII text
ToLower(t) == [i \in 1..Len(t) |-> IF t[i] \in 65..90 THEN t[i] + 32 ELSE t[i]]

StrPng == << 112, 110, 103 >>
StrJpeg == << 106, 112, 101, 103 >>
StrJpg == << 106, 112, 103 >>
StrWebp == << 119, 101, 98, 112 >>
StrBmp == << 98, 109, 112 >>

----------------------------------------------------------------------------
(* ImageProcessor *)

Encoded(e, msg, ran) ==
    IF e.ok THEN Out(Ok(e.bytes), Append(ran, "encode"))
    ELSE Out(Err(msg), Append(ran, "encode"))

\* convert_format whose match falls back to PNG (`_ => ImageOutputFormat::Png`)
convert_format_fallback(image_data, format) ==
    LET img == load_from_memory(image_data) IN
    IF ~img.ok THEN Out(Err("Failed to load image"), << "decode" >>)
    ELSE
    LET f == ToLower(format) IN
    IF f = StrJpeg \/ f = StrJpg
    THEN Encoded(write_to(img, CodecJpeg, JpegQuality), "Failed to convert image", << "decode" >>)
    ELSE IF f = StrWebp
    THEN Encoded(write_to(img, CodecWebP, 0), "Failed to convert image", << "decode" >>)
    ELSE IF f = StrBmp
    THEN Encoded(write_to(img, CodecBmp, 0), "Failed to convert image", << "decode" >>)
    ELSE Encoded(write_to(img, CodecPng, 0), "Failed to convert image", << "decode" >>)

convert_format(image_data, format) ==
    LET img == load_from_memory(image_data) IN
    IF ~img.ok THEN Out(Err("Failed to load image"), << "decode" >>)
    ELSE
    LET f == ToLower(format) IN
    IF f = StrPng THEN Encoded(write_to(img, CodecPng, 0), "Failed to convert image", << "decode" >>)
    ELSE IF f = StrJpeg \/ f = StrJpg
    THEN Encoded(write_to(img, CodecJpeg, JpegQuality), "Failed to convert image", << "decode" >>)
    ELSE IF f = StrWebp
    THEN Encoded(write_to(img, CodecWebP, 0), "Failed to convert image", << "decode" >>)
    ELSE IF f = StrBmp
    THEN Encoded(write_to(img, CodecBmp, 0), "Failed to convert image", << "decode" >>)
    ELSE Out(Err("Unsupported format"), << "decode" >>)

\* rotate taking the angle modulo 360 and returning the image as it is for 0
rotate_modulo(image_data, degrees) ==
    LET img == load_from_memory(image_data) IN
    IF ~img.ok THEN Out(Err("Failed to load image"), << "decode" >>)
    ELSE IF degrees % 360 = 90
    THEN Encoded(write_to(rotate90(img), CodecPng, 0), "Failed to encode image",
                 << "decode", "rotate" >>)
    ELSE IF degrees % 360 = 180
    THEN Encoded(write_to(rotate180(img), CodecPng, 0), "Failed to encode image",
                 << "decode", "rotate" >>)
    ELSE IF degrees % 360 = 270
    THEN Encoded(write_to(rotate270(img), CodecPng, 0), "Failed to encode image",
                 << "decode", "rotate" >>)
    ELSE IF degrees % 360 = 0
    THEN Encoded(write_to(img, CodecPng, 0), "Failed to encode image", << "decode" >>)
    ELSE Out(Err("Only 90, 180, 270 degree rotations supported"), << "decode" >>)

rotate(image_data, degrees) ==
    LET img == load_from_memory(image_data) IN
    IF ~img.ok THEN Out(Err("Failed to load image"), << "decode" >>)
    ELSE IF degrees = 90
    THEN Encoded(write_to(rotate90(img), CodecPng, 0), "Failed to encode image",
                 << "decode", "rotate" >>)
    ELSE IF degrees = 180
    THEN Encoded(write_to(rotate180(img), CodecPng, 0), "Failed to encode image",
                 << "decode", "rotate" >>)
    ELSE IF degrees = 270
    THEN Encoded(write_to(rotate270(img), CodecPng, 0), "Failed to encode image",
                 << "decode", "rotate" >>)
    ELSE Out(Err("Only 90, 180, 270 degree rotations supported"), << "decode" >>)

flip(image_data, horizontal) ==
    LET img == load_from_memory(image_data) IN
    IF ~img.ok THEN Out(Err("Failed to load image"), << "decode" >>)
    ELSE Encoded(write_to(IF horizontal THEN fliph(img) ELSE flipv(img), CodecPng, 0),
                 "Failed to encode image", << "decode", "flip" >>)

crop(image_data, x, y, width, height) ==
    LET img == load_from_memory(image_data) IN
    IF ~img.ok THEN Out(Err("Failed to load image"), << "decode" >>)
    ELSE Encoded(write_to(crop_imm(img, x, y, width, height), CodecPng, 0),
                 "Failed to encode image", << "decode", "crop" >>)

compress(image_data, quality) ==
    LET img == load_from_memory(image_data) IN
    IF ~img.ok THEN Out(Err("Failed to load image"), << "decode" >>)
    ELSE Encoded(write_to(img, CodecJpeg, quality), "Failed to compress image",
                 << "decode" >>)

get_dimensions(image_data) ==
    LET img == load_from_memory(image_data) IN
    IF ~img.ok THEN Out(Err("Failed to load image"), << "decode" >>)
    ELSE Out(Ok(<< img.w, img.h >>), << "decode", "dimensions", "serialize" >>)

\* Kernel coefficients are multiples of 1/KernelScale (exact in f32), held
\* as their numerators; a channel sum is held in the same unit.
KernelScale == 2

\* A kernel term that reads the kernel column by column (kernel[kx * 3 + ky])
ConvTerm_column_major(img, kernel, x, y, c, k) ==
    get_pixel(img, x + (k % 3) - 1, y + (k \div 3) - 1)[c] * kernel[(k % 3) * 3 + (k \div 3) + 1]

\* k = ky * 3 + kx: px = rgba.get_pixel(x + kx - 1, y + ky - 1), k_val = kernel[k]
ConvTerm(img, kernel, x, y, c, k) ==
    get_pixel(img, x + (k % 3) - 1, y + (k \div 3) - 1)[c] * kernel[k + 1]

ConvSum(img, kernel, x, y, c) ==
    ConvTerm(img, kernel, x, y, c, 0) + ConvTerm(img, kernel, x, y, c, 1)
    + ConvTerm(img, kernel, x, y, c, 2) + ConvTerm(img, kernel, x, y, c, 3)
    + ConvTerm(img, kernel, x, y, c, 4) + ConvTerm(img, kernel, x, y, c, 5)
    + ConvTerm(img, kernel, x, y, c, 6) + ConvTerm(img, kernel, x, y, c, 7)
    + ConvTerm(img, kernel, x, y, c, 8)

\* v.max(0.0).min(255.0) as u8
Saturate(v) ==
    IF v <= 0 THEN 0
    ELSE IF v >= 255 * KernelScale THEN 255
    ELSE v \div KernelScale

\* The loops over 1..height-1 and 1..width-1 on an ImageBuffer::new(width, height)
Convolve(img, kernel) ==
    Image(img.w, img.h,
          [c \in Coords(img.w, img.h) |->
              IF c[1] >= 1 /\ c[1] < img.w - 1 /\ c[2] >= 1 /\ c[2] < img.h - 1
              THEN << Saturate(ConvSum(img, kernel, c[1], c[2], 1)),
                      Saturate(ConvSum(img, kernel, c[1], c[2], 2)),
                      Saturate(ConvSum(img, kernel, c[1], c[2], 3)),
                      get_pixel(img, c[1], c[2])[4] >>
              ELSE << 0, 0, 0, 0 >>])

\* apply_convolution that decodes the image before it looks at the kernel
apply_convolution_decode_first(image_data, kernel) ==
    LET img == load_from_memory(image_data) IN
    IF ~img.ok THEN Out(Err("Failed to load image"), << "decode" >>)
    ELSE IF Len(kernel) # KernelLen
    THEN Out(Err("Kernel must be 3x3 (9 values)"), << "decode" >>)
    ELSE Encoded(write_to(Convolve(img, kernel), CodecPng, 0), "Failed to encode image",
                 << "decode", "convolve" >>)

apply_convolution(image_data, kernel) ==
    IF Len(kernel) # KernelLen THEN Out(Err("Kernel must be 3x3 (9 values)"), << >>)
    ELSE
    LET img == load_from_memory(image_data) IN
    IF ~img.ok THEN Out(Err("Failed to load image"), << "decode" >>)
    ELSE Encoded(write_to(Convolve(img, kernel), CodecPng, 0), "Failed to encode image",
                 << "decode", "convolve" >>)

\* to_base64 with an engine that leaves the padding out (STANDARD_NO_PAD)
to_base64_unpadded(image_data) ==
    LET t == B64Encode(image_data)
    IN Out(Ok(SelectSeq(t, IsSym)), << "encode_base64" >>)

to_base64(image_data) == Out(Ok(B64Encode(image_data)), << "encode_base64" >>)

from_base64(base64_str) ==
    LET d == B64Decode(base64_str) IN
    IF d.ok THEN Out(Ok(d.bytes), << "decode_base64" >>)
    ELSE Out(Err("Invalid base64"), << "decode_base64" >>)

----------------------------------------------------------------------------
(* The arguments the hosting page passes *)

Texts == { << >>, << 104, 105 >>, << 104, 195, 169, 33 >> }   \* "", "hi", "hé!"

NotBase64 == << BadChar, 0, 0, 0 >>
Unpadded == << 0, 0 >>               \* "AA": padding missing
TrailingBits == << 0, 1, PadChar, PadChar >>   \* "AB==": bits left over

GeneratedKeys == { generate_aes_key(s).res.data : s \in 0..MaxKeySeed }
WrongLengthKeys == { << >>, B64Encode(RandomBytes(0, 16)), B64Encode(RandomBytes(0, 33)) }
KeyArgs == GeneratedKeys \cup WrongLengthKeys \cup { NotBase64, TrailingBits }

Nonces == { RandomBytes(100 + s, NonceLen) : s \in 0..MaxNonceSeed }

CiphertextArgs ==
    { << >>, B64Encode(<< 1, 2, 3 >>), B64Encode(RandomBytes(5, NonceLen - 1)),
      B64Encode(RandomBytes(5, NonceLen)), B64Encode(RandomBytes(5, NonceLen + TagLen - 1)),
      B64Encode(RandomBytes(5, NonceLen + TagLen + 3)), NotBase64, Unpadded }

TamperDeltas == { 1, 128 }

\* The envelope e with byte i of its decoding changed by d, encoded again
Tampered(e, i, d) ==
    LET b == B64Decode(e).bytes
    IN B64Encode([b EXCEPT ![i] = (b[i] + d) % 256])

KeyPairs == { generate_keypair(s).res : s \in 0..MaxKeySeed }
SecretArgs == { kp.data2 : kp \in KeyPairs }
                 \cup { B64Encode(RandomBytes(0, 16)), NotBase64 }
PublicArgs == { kp.data : kp \in KeyPairs }
                 \cup { B64Encode(RandomBytes(0, 16)),
                        B64Encode([i \in 1..KeyLen |-> 2 * i]), NotBase64 }
SignatureArgs == { << >>, B64Encode(RandomBytes(5, SigLen)), B64Encode(RandomBytes(0, SigLen)),
                   B64Encode(RandomBytes(5, SigLen - 1)), NotBase64 }

SamplePixel(x, y) ==
    << (40 * x + 90 * y + 10) % 256, (200 + 7 * x * y) % 256,
       (255 - 60 * x + 256) % 256, (128 + 50 * y) % 256 >>
SampleImage(w, h) == Image(w, h, [c \in Coords(w, h) |-> SamplePixel(c[1], c[2])])

Dimensions == { << 1, 1 >>, << 3, 2 >>, << 3, 3 >>, << 4, 3 >> }
NotAnImage == { << >>, << 7, 7, 7, 7, 7 >>, << CodecPng, 0, 2, 2, 1 >> }
ImageArgs ==
    { write_to(SampleImage(d[1], d[2]), CodecPng, 0).bytes : d \in Dimensions }
    \cup { write_to(SampleImage(2, 2), CodecJpeg, 90).bytes }
    \cup NotAnImage

FormatArgs ==
    { StrPng, << 80, 78, 71 >>, << 80, 110, 103 >>, StrJpeg, << 74, 80, 71 >>, StrJpg,
      StrWebp, << 87, 101, 98, 80 >>, StrBmp, << 66, 77, 80 >>,
      << 103, 105, 102 >>, << 116, 105, 102, 102 >>, << >>, << 112, 110, 103, 32 >>,
      << 112, 110 >> }

DegreesArgs == { 0, 45, 90, 180, 270, 360 }

CropArgs == { << 0, 0, 1, 1 >>, << 1, 1, 2, 2 >>, << 5, 5, 1, 1 >>, << 0, 0, 0, 0 >> }

KernelArgs ==
    { << 0, 0, 0, 0, KernelScale, 0, 0, 0, 0 >>,
      << 0, -KernelScale, 0, -KernelScale, 5 * KernelScale, -KernelScale, 0, -KernelScale, 0 >>,
      << 1, 1, 1, 1, 1, 1, 1, 1, 1 >>,
      << -1, -1, -1, -1, -1, -1, -1, -1, -1 >>,
      << 0, 1, 0, 0, KernelScale, 0, 0, 0, 0 >>,
      << >>, << 1, 1, 1, 1, 1, 1, 1, 1 >>, << 1, 1, 1, 1, 1, 1, 1, 1, 1, 1 >> }

\* to_base64 takes any &[u8]: besides the images, buffers of one, two and
\* three bytes (each padding case of the encoder) with high bits set
RawBuffers == { << 255 >>, << 0, 128 >>, << 255, 254, 253 >>, << 0, 0, 0, 1 >> }
BufferArgs == ImageArgs \cup RawBuffers

Base64Args == { << >>, NotBase64, Unpadded, TrailingBits, << 0, 0, 0, 0 >>, << 0, 16, PadChar, PadChar >> }

----------------------------------------------------------------------------
(* The calls *)

NoOrigin == [from |-> "none", text |-> << >>, key |-> << >>, changed |-> 0]

\* CryptoModule::new / ImageProcessor::new: the structs have no fields
Init ==
    /\ op = "new"
    /\ args = [none |-> TRUE]
    /\ steps = << >>
    /\ result = NoResult
    /\ origin = NoOrigin

Call(name, a, out, from) ==
    /\ op' = name
    /\ args' = a
    /\ steps' = out.steps
    /\ result' = out.res
    /\ origin' = from

DoGenerateAesKey ==
    \E seed \in 0..MaxKeySeed :
        /\ Call("generate_aes_key", [seed |-> seed], generate_aes_key(seed), NoOrigin)

DoEncryptAes ==
    \E plaintext \in Texts, key_base64 \in KeyArgs, nonce_bytes \in Nonces :
        /\ Call("encrypt_aes",
             [plaintext |-> plaintext, key_base64 |-> key_base64, nonce_bytes |-> nonce_bytes],
             encrypt_aes(plaintext, key_base64, nonce_bytes), NoOrigin)

DoDecryptAes ==
    \E ciphertext_base64 \in CiphertextArgs, key_base64 \in KeyArgs :
        /\ Call("decrypt_aes",
             [ciphertext_base64 |-> ciphertext_base64, key_base64 |-> key_base64],
             decrypt_aes(ciphertext_base64, key_base64), NoOrigin)

\* The page passes the envelope encrypt_aes has just returned
DoDecryptAesReturned ==
    /\ op = "encrypt_aes" /\ result.kind = "ok"
    /\ \E key_base64 \in KeyArgs :
        /\ Call("decrypt_aes",
             [ciphertext_base64 |-> result.data, key_base64 |-> key_base64],
             decrypt_aes(result.data, key_base64),
             [from |-> "encrypt_aes", text |-> args.plaintext, key |-> args.key_base64,
              changed |-> 0])

\* The envelope encrypt_aes has just returned reaches decrypt_aes with one byte changed
DoDecryptAesTampered ==
    /\ op = "encrypt_aes" /\ result.kind = "ok"
    /\ \E i \in 1..Len(B64Decode(result.data).bytes), d \in TamperDeltas :
        /\ Call("decrypt_aes",
             [ciphertext_base64 |-> Tampered(result.data, i, d),
              key_base64 |-> args.key_base64],
             decrypt_aes(Tampered(result.data, i, d), args.key_base64),
             [from |-> "encrypt_aes", text |-> args.plaintext, key |-> args.key_base64,
              changed |-> i])

DoHashSha256 ==
    \E data \in Texts : /\ Call("hash_sha256", [data |-> data], hash_sha256(data), NoOrigin)

DoHashSha512 ==
    \E data \in Texts : /\ Call("hash_sha512", [data |-> data], hash_sha512(data), NoOrigin)

DoGenerateKeypair ==
    \E seed \in 0..MaxKeySeed :
        /\ Call("generate_keypair", [seed |-> seed], generate_keypair(seed), NoOrigin)

DoSignEd25519 ==
    \E message \in Texts, secret_key_base64 \in SecretArgs :
        /\ Call("sign_ed25519", [message |-> message, secret_key_base64 |-> secret_key_base64],
             sign_ed25519(message, secret_key_base64), NoOrigin)

DoVerifyEd25519 ==
    \E message \in Texts, signature_base64 \in SignatureArgs, public_key_base64 \in PublicArgs :
        /\ Call("verify_ed25519",
             [message |-> message, signature_base64 |-> signature_base64,
              public_key_base64 |-> public_key_base64],
             verify_ed25519(message, signature_base64, public_key_base64), NoOrigin)

\* The page passes the signature sign_ed25519 has just returned
DoVerifyEd25519Returned ==
    /\ op = "sign_ed25519" /\ result.kind = "ok"
    /\ \E message \in Texts, public_key_base64 \in PublicArgs :
        /\ Call("verify_ed25519",
             [message |-> message, signature_base64 |-> result.data,
              public_key_base64 |-> public_key_base64],
             verify_ed25519(message, result.data, public_key_base64),
             [from |-> "sign_ed25519", text |-> args.message, key |-> args.secret_key_base64,
              changed |-> 0])

DoRandomBytes ==
    \E length \in 0..MaxRandomLen, seed \in 0..MaxKeySeed, entropy_ok \in BOOLEAN :
        /\ Call("random_bytes", [length |-> length, seed |-> seed, entropy_ok |-> entropy_ok],
             random_bytes(length, seed, entropy_ok), NoOrigin)

DoDeriveKeyPbkdf2 ==
    \E password \in Texts, salt \in Texts, iterations \in { 1, 1000 } :
        /\ Call("derive_key_pbkdf2",
             [password |-> password, salt |-> salt, iterations |-> iterations],
             derive_key_pbkdf2(password, salt, iterations), NoOrigin)

DoConvertFormat ==
    \E image_data \in ImageArgs, format \in FormatArgs :
        /\ Call("convert_format", [image_data |-> image_data, format |-> format],
             convert_format(image_data, format), NoOrigin)

DoRotate ==
    \E image_data \in ImageArgs, degrees \in DegreesArgs :
        /\ Call("rotate", [image_data |-> image_data, degrees |-> degrees],
             rotate(image_data, degrees), NoOrigin)

DoFlip ==
    \E image_data \in ImageArgs, horizontal \in BOOLEAN :
        /\ Call("flip", [image_data |-> image_data, horizontal |-> horizontal],
             flip(image_data, horizontal), NoOrigin)

DoCrop ==
    \E image_data \in ImageArgs, r \in CropArgs :
        /\ Call("crop", [image_data |-> image_data, x |-> r[1], y |-> r[2],
                      width |-> r[3], height |-> r[4]],
             crop(image_data, r[1], r[2], r[3], r[4]), NoOrigin)

DoCompress ==
    \E image_data \in ImageArgs, quality \in { 0, 80, 100 } :
        /\ Call("compress", [image_data |-> image_data, quality |-> quality],
             compress(image_data, quality), NoOrigin)

DoGetDimensions ==
    \E image_data \in ImageArgs :
        /\ Call("get_dimensions", [image_data |-> image_data], get_dimensions(image_data),
             NoOrigin)

DoApplyConvolution ==
    \E image_data \in ImageArgs, kernel \in KernelArgs :
        /\ Call("apply_convolution", [image_data |-> image_data, kernel |-> kernel],
             apply_convolution(image_data, kernel), NoOrigin)

DoToBase64 ==
    \E image_data \in BufferArgs :
        /\ Call("to_base64", [image_data |-> image_data], to_base64(image_data), NoOrigin)

DoFromBase64 ==
    \E base64_str \in Base64Args :
        /\ Call("from_base64", [base64_str |-> base64_str], from_base64(base64_str), NoOrigin)

\* The page passes the text to_base64 has just returned
DoFromBase64Returned ==
    /\ op = "to_base64" /\ result.kind = "ok"
    /\ Call("from_base64", [base64_str |-> result.data], from_base64(result.data),
            [from |-> "to_base64", text |-> args.image_data, key |-> << >>, changed |-> 0])

Next ==
    \/ DoGenerateAesKey
    \/ DoEncryptAes
    \/ DoDecryptAes
    \/ DoDecryptAesReturned
    \/ DoDecryptAesTampered
    \/ DoHashSha256
    \/ DoHashSha512
    \/ DoGenerateKeypair
    \/ DoSignEd25519
    \/ DoVerifyEd25519
    \/ DoVerifyEd25519Returned
    \/ DoRandomBytes
    \/ DoDeriveKeyPbkdf2
    \/ DoConvertFormat
    \/ DoRotate
    \/ DoFlip
    \/ DoCrop
    \/ DoCompress
    \/ DoGetDimensions
    \/ DoApplyConvolution
    \/ DoToBase64
    \/ DoFromBase64
    \/ DoFromBase64Returned

Spec == Init /\ [][Next]_vars

----------------------------------------------------------------------------
(* Properties *)

KeyBytes == B64Decode(args.key_base64)
EnvelopeBytes == B64Decode(args.ciphertext_base64)

\* C1: decrypting, with the generated key k, the envelope encrypt_aes(m, k) returned
\* succeeds and returns exactly m, whatever nonce was drawn.
C1_RoundTrip ==
    ( /\ op = "decrypt_aes"
      /\ origin.from = "encrypt_aes" /\ origin.changed = 0
      /\ origin.key \in GeneratedKeys
      /\ args.key_base64 = origin.key )
    => result = Ok(origin.text)

C1_Witness ==
    /\ op = "decrypt_aes"
    /\ origin.from = "encrypt_aes" /\ origin.changed = 0
    /\ origin.key \in GeneratedKeys
    /\ args.key_base64 = origin.key
    /\ Len(origin.text) = 4
    /\ result.kind = "ok" /\ result.data = origin.text

\* C2: a key that is valid base64 of a length other than 32 bytes makes encrypt_aes,
\* and decrypt_aes on an envelope of at least 12 bytes, return an error naming the
\* key; the call does not panic and returns no ciphertext or plaintext.
C2_WrongLengthKeyIsAnError ==
    ( /\ op \in { "encrypt_aes", "decrypt_aes" }
      /\ KeyBytes.ok /\ Len(KeyBytes.bytes) # KeyLen
      /\ (op = "decrypt_aes" => EnvelopeBytes.ok /\ Len(EnvelopeBytes.bytes) >= NonceLen) )
    => ( result.kind = "err" /\ result.msg \in { "Invalid key", "Invalid key length" } )

\* C3 as claimed: an envelope that decodes to fewer than 12 bytes is rejected with
\* the length error, before the nonce split and the AEAD step, for every key argument.
C3_ShortEnvelopeLengthError ==
    ( /\ op = "decrypt_aes"
      /\ EnvelopeBytes.ok /\ Len(EnvelopeBytes.bytes) < NonceLen )
    => ( /\ result = Err("Invalid ciphertext length")
         /\ \A i \in 1..Len(steps) : steps[i] \notin { "split", "aead_decrypt" } )

\* C3 as amended: an envelope that decodes to fewer than 12 bytes is rejected before
\* the nonce split and the AEAD step for every key argument: with the length error
\* when the key argument is valid base64 (of any length), with the key error when it
\* is not.
C3_ShortEnvelopeRejected ==
    ( /\ op = "decrypt_aes"
      /\ EnvelopeBytes.ok /\ Len(EnvelopeBytes.bytes) < NonceLen )
    => ( /\ result = Err(IF KeyBytes.ok THEN "Invalid ciphertext length" ELSE "Invalid key")
         /\ \A i \in 1..Len(steps) : steps[i] \notin { "split", "aead_decrypt" } )

C3_Witness ==
    /\ op = "decrypt_aes"
    /\ EnvelopeBytes.ok /\ Len(EnvelopeBytes.bytes) = NonceLen - 1
    /\ KeyBytes.ok /\ Len(KeyBytes.bytes) # KeyLen
    /\ result = Err("Invalid ciphertext length")

\* C4: an envelope encrypt_aes(m, k) returned, with any one byte of its decoding
\* (nonce, body or tag) changed, makes decrypt_aes with k return the error
\* "Decryption failed", never a plaintext; so does the unchanged envelope with a
\* different generated key.
C4_TamperDetected ==
    ( /\ op = "decrypt_aes"
      /\ origin.from = "encrypt_aes"
      /\ origin.key \in GeneratedKeys
      /\ \/ origin.changed > 0 /\ args.key_base64 = origin.key
         \/ origin.changed = 0 /\ args.key_base64 \in GeneratedKeys \ { origin.key } )
    => result = Err("Decryption failed")

C4_Witness ==
    /\ op = "decrypt_aes"
    /\ origin.from = "encrypt_aes"
    /\ origin.key \in GeneratedKeys /\ args.key_base64 = origin.key
    /\ origin.changed > NonceLen /\ origin.changed <= NonceLen + Len(origin.text)
    /\ result = Err("Decryption failed")

SignatureBytes == B64Decode(args.signature_base64)
PublicBytes == B64Decode(args.public_key_base64)
Malformed ==
    \/ ~SignatureBytes.ok
    \/ ~PublicBytes.ok
    \/ ~EdSignatureParses(SignatureBytes.bytes)
    \/ ~EdPublicParses(PublicBytes.bytes)

\* C5: verify_ed25519 returns an error exactly when the signature or the public key
\* is not valid base64 or does not parse; otherwise it returns a boolean, which is
\* false, not an error, when the signature does not match the message.
C5_VerifyErrorIffMalformed ==
    op = "verify_ed25519"
    => ( /\ result.kind = "err" <=> Malformed
         /\ ~Malformed => result.kind = "ok"
         /\ ( ~Malformed /\ ~EdVerify(PublicBytes.bytes, args.message, SignatureBytes.bytes) )
              => result = OkBool(FALSE) )

C5_Witness ==
    /\ op = "verify_ed25519"
    /\ origin.from = "none"
    /\ ~Malformed
    /\ result = OkBool(FALSE)

\* C6: a signature sign_ed25519(m, secret) made with a generated pair's secret key
\* verifies as true under the pair's public key for m and as false for any other
\* message.
C6_SignThenVerify ==
    ( /\ op = "verify_ed25519"
      /\ origin.from = "sign_ed25519"
      /\ \E kp \in KeyPairs :
            origin.key = kp.data2 /\ args.public_key_base64 = kp.data )
    => result = OkBool(args.message = origin.text)

C6_Witness ==
    /\ op = "verify_ed25519"
    /\ origin.from = "sign_ed25519"
    /\ \E kp \in KeyPairs : origin.key = kp.data2 /\ args.public_key_base64 = kp.data
    /\ args.message = origin.text /\ Len(args.message) > 0
    /\ result = OkBool(TRUE)

Decodable == load_from_memory(args.image_data).ok
NoStep(names) == \A i \in 1..Len(steps) : steps[i] \notin names

\* C7 as claimed: rotate with degrees outside {90, 180, 270} returns the
\* unsupported-rotation error and runs no decode, rotate or encode step, for every
\* image_data.
C7_RotationRejectedFirst ==
    ( op = "rotate" /\ args.degrees \notin { 90, 180, 270 } )
    => ( /\ result = Err("Only 90, 180, 270 degree rotations supported")
         /\ NoStep({ "decode", "rotate", "encode" }) )

\* C7 as amended: rotate with degrees outside {90, 180, 270} decodes image_data
\* first; a decodable image is then rejected with the unsupported-rotation error,
\* undecodable bytes with the load error; in both cases no rotate or encode step
\* runs and no output bytes are returned.
C7_RotationRejected ==
    ( op = "rotate" /\ args.degrees \notin { 90, 180, 270 } )
    => ( /\ result = Err(IF Decodable THEN "Only 90, 180, 270 degree rotations supported"
                         ELSE "Failed to load image")
         /\ steps = << "decode" >>
         /\ NoStep({ "rotate", "encode" }) )

C7_Witness ==
    /\ op = "rotate" /\ args.degrees = 45
    /\ Decodable
    /\ steps = << "decode" >>
    /\ result = Err("Only 90, 180, 270 degree rotations supported")

\* C8: apply_convolution with a kernel of a length other than 9 returns the
\* kernel-size error before the image is decoded and before any pixel work, for
\* every image_data, decodable or not.
C8_KernelRejectedFirst ==
    ( op = "apply_convolution" /\ Len(args.kernel) # KernelLen )
    => ( /\ result = Err("Kernel must be 3x3 (9 values)")
         /\ steps = << >> )

C8_Witness ==
    /\ op = "apply_convolution"
    /\ Len(args.kernel) = KernelLen - 1
    /\ ~Decodable
    /\ result = Err("Kernel must be 3x3 (9 values)")

FormatCodec(f) ==
    IF f = StrPng THEN << CodecPng, 0 >>
    ELSE IF f \in { StrJpeg, StrJpg } THEN << CodecJpeg, JpegQuality >>
    ELSE IF f = StrWebp THEN << CodecWebP, 0 >>
    ELSE IF f = StrBmp THEN << CodecBmp, 0 >>
    ELSE << 0, 0 >>

\* C9 as claimed: convert_format maps exactly png, jpeg, jpg, webp and bmp, in any
\* letter case, to an output codec (jpeg and jpg at quality 85) and rejects every
\* other format name with the error "Unsupported format" and no output bytes.
C9_FormatNames ==
    op = "convert_format"
    => LET c == FormatCodec(ToLower(args.format)) IN
       IF c[1] # 0
       THEN result.kind = "ok" => ( result.data[1] = c[1] /\ result.data[2] = c[2] )
       ELSE result = Err("Unsupported format")

\* C9 as amended: on image_data that decodes, convert_format maps exactly png, jpeg,
\* jpg, webp and bmp, in any letter case, to an output codec (jpeg and jpg at
\* quality 85) and rejects every other format name with the error "Unsupported
\* format"; on image_data that does not decode it returns the load error whatever
\* the format name; a format name outside the five never yields output bytes.
C9_FormatNamesDecoded ==
    op = "convert_format"
    => LET c == FormatCodec(ToLower(args.format)) IN
       IF ~Decodable THEN result = Err("Failed to load image")
       ELSE IF c[1] # 0
       THEN \/ result.kind = "ok" /\ result.data[1] = c[1] /\ result.data[2] = c[2]
            \/ result = Err("Failed to convert image")
       ELSE result = Err("Unsupported format")

C9_Witness ==
    /\ op = "convert_format"
    /\ Decodable
    /\ args.format = << 103, 105, 102 >>
    /\ result = Err("Unsupported format")

----------------------------------------------------------------------------
\* C11: whatever bytes to_base64 was given (the empty buffer and bytes that are
\* not an image included), from_base64 of the text it returned succeeds and
\* returns exactly those bytes.
C11_Base64RoundTrip ==
    (op = "from_base64" /\ origin.from = "to_base64")
        => /\ result.kind = "ok"
           /\ result.data = origin.text

\* from_base64 has returned a buffer that is not an image and whose encoding
\* ends in padding
C11_Witness ==
    /\ op = "from_base64" /\ origin.from = "to_base64"
    /\ ~load_from_memory(origin.text).ok
    /\ Len(origin.text) % 3 # 0
    /\ args.base64_str[Len(args.base64_str)] = PadChar
    /\ result.kind = "ok" /\ result.data = origin.text

----------------------------------------------------------------------------
\* The source image of the call, the image in the returned bytes, and the
\* weighted sum of a 3x3 neighbourhood as the claim words it: the coefficient
\* of the neighbour at offset (dx, dy) is entry (dy + 1) * 3 + (dx + 1) of the
\* row-major kernel.  Sums are in units of 1/KernelScale.
SourceImage == load_from_memory(args.image_data)
ReturnedImage == load_from_memory(result.data)

PixelAt(img, x, y) == img.px[y * img.w + x + 1]

Weighted(x, y, dx, dy, c) ==
    PixelAt(SourceImage, x + dx, y + dy)[c] * args.kernel[(dy + 1) * 3 + (dx + 1) + 1]

WeightedRow(x, y, dy, c) ==
    Weighted(x, y, -1, dy, c) + Weighted(x, y, 0, dy, c) + Weighted(x, y, 1, dy, c)

WeightedSum(x, y, c) ==
    WeightedRow(x, y, -1, c) + WeightedRow(x, y, 0, c) + WeightedRow(x, y, 1, c)

Clamped(v) ==
    IF v < 0 THEN 0 ELSE IF v > 255 * KernelScale THEN 255 * KernelScale ELSE v

Interior(x, y) ==
    /\ 1 <= x /\ x <= SourceImage.w - 2
    /\ 1 <= y /\ y <= SourceImage.h - 2

Convolved ==
    /\ op = "apply_convolution"
    /\ Len(args.kernel) = KernelLen
    /\ SourceImage.ok

SameSize ==
    /\ result.kind = "ok"
    /\ ReturnedImage.ok
    /\ ReturnedImage.w = SourceImage.w
    /\ ReturnedImage.h = SourceImage.h

BorderIsDefault ==
    \A x \in 0..(SourceImage.w - 1), y \in 0..(SourceImage.h - 1) :
        ~Interior(x, y) => PixelAt(ReturnedImage, x, y) = << 0, 0, 0, 0 >>

AlphaKept ==
    \A x \in 0..(SourceImage.w - 1), y \in 0..(SourceImage.h - 1) :
        Interior(x, y) => PixelAt(ReturnedImage, x, y)[4] = PixelAt(SourceImage, x, y)[4]

\* C12 as stated: on a decodable w x h image and a 9-coefficient kernel,
\* apply_convolution returns a w x h image whose interior pixels have R, G, B
\* equal to the clamped weighted sum and the source alpha, and whose border
\* pixels (all pixels when w <= 2 or h <= 2) are the default 0, 0, 0, 0.
C12_ConvolutionExact ==
    Convolved =>
        /\ SameSize
        /\ BorderIsDefault
        /\ AlphaKept
        /\ \A x \in 0..(SourceImage.w - 1), y \in 0..(SourceImage.h - 1), c \in 1..3 :
              Interior(x, y) =>
                  PixelAt(ReturnedImage, x, y)[c] * KernelScale = Clamped(WeightedSum(x, y, c))

\* C12: on a decodable w x h image and a 9-coefficient kernel,
\* apply_convolution returns a w x h image; every interior pixel has R, G, B
\* equal to the weighted sum of the source 3x3 neighbourhood (row-major
\* kernel), clamped to [0,255] and then cut to its integer part, and the source
\* alpha; every border pixel is 0, 0, 0, 0, and so is every pixel when w <= 2
\* or h <= 2.
C12_ConvolutionTruncated ==
    Convolved =>
        /\ SameSize
        /\ BorderIsDefault
        /\ AlphaKept
        /\ \A x \in 0..(SourceImage.w - 1), y \in 0..(SourceImage.h - 1), c \in 1..3 :
              Interior(x, y) =>
                  PixelAt(ReturnedImage, x, y)[c] = Clamped(WeightedSum(x, y, c)) \div KernelScale
        /\ (SourceImage.w <= 2 \/ SourceImage.h <= 2) =>
              \A n \in 1..Len(ReturnedImage.px) : ReturnedImage.px[n] = << 0, 0, 0, 0 >>

\* apply_convolution has returned an image with an interior and a border, the
\* kernel is not symmetric, and some interior channel holds a sum that is inside
\* [0,255] and not a whole number
C12_Witness ==
    /\ Convolved /\ SameSize
    /\ SourceImage.w >= 4 /\ SourceImage.h >= 3
    /\ args.kernel[2] # args.kernel[4]
    /\ \E x \in 0..(SourceImage.w - 1), y \in 0..(SourceImage.h - 1), c \in 1..3 :
          /\ Interior(x, y)
          /\ WeightedSum(x, y, c) > 0
          /\ WeightedSum(x, y, c) < 255 * KernelScale
          /\ WeightedSum(x, y, c) % KernelScale # 0
          /\ PixelAt(ReturnedImage, x, y)[c] = WeightedSum(x, y, c) \div KernelScale
          /\ PixelAt(ReturnedImage, x, y)[4] = PixelAt(SourceImage, x, y)[4]

====
